---------------------------- MODULE Spec2Model ----------------------------
(***************************************************************************)
(* A model of the two request pipelines of the FastAPI application:        *)
(*   POST /api/image/process  (src/app.py, process_image)                  *)
(*   POST /api/budget/pdf     (src/app.py, budget_pdf, and                 *)
(*                             src/services/budget_pdf.py)                 *)
(*                                                                         *)
(* Numbers.  Python floats are modelled as exact decimal fixed-point       *)
(* numbers [c, u]: c whole cents and u ten-thousandths of a cent           *)
(* (0 <= u < 10000), value = c + u/10000 cents.  Prices are whole cents    *)
(* and percentages whole numbers, so subtotal, discount, tax and total     *)
(* are exact in this representation.  Python rounds the binary float       *)
(* nearest to the decimal value; on an exact decimal tie (x.xx5) the       *)
(* model rounds half to even and the properties below only rely on the     *)
(* result being a nearest cent.  Negative zero is identified with zero.    *)
(*                                                                         *)
(* Text.  A string is a sequence of one-character strings.                 *)
(***************************************************************************)
EXTENDS Integers, Sequences, FiniteSets, TLC

VARIABLES
    pc,        \* position of the request being served
    upload,    \* the UploadFile of an image request (content type, name, body)
    img,       \* process_image: the decoded, orientation-normalized image
    exif_data, \* process_image: the ExifMap
    results,   \* process_image: the dict of archive entries, in insertion order
    payload,   \* the BudgetRequest body of a budget request
    pdf,       \* generate_budget_pdf: what was rendered
    dims,      \* process_image: width, height of the normalized image
    trace,     \* the pipeline steps that ran for this request, in order
    resp,      \* the HTTP response
    call,      \* unit call of a pure helper: its arguments
    ret,       \* unit call of a pure helper: its result
    parked     \* the other request in flight: its parameters, locals and response

vars ==
    <<pc, upload, img, exif_data, results, dims, payload, pdf, trace, resp, call, ret,
      parked>>

None == <<>>

(***************************************************************************)
(* Bounds of the model.                                                    *)
(***************************************************************************)
MaxItems == 2
MaxQuantity == 2

(***************************************************************************)
(* Fixed-point numbers.                                                    *)
(***************************************************************************)
UnitsPerCent == 100 * 100

Norm(c, u) == [c |-> c + (u \div UnitsPerCent), u |-> u % UnitsPerCent]

FromCents(n) == [c |-> n, u |-> 0]

FZero == FromCents(0)

FAdd(a, b) == Norm(a.c + b.c, a.u + b.u)

FNeg(a) == Norm(-a.c, -a.u)

FSub(a, b) == FAdd(a, FNeg(b))

FMulInt(n, a) == Norm(n * a.c, n * a.u)

FLess(a, b) == a.c < b.c \/ (a.c = b.c /\ a.u < b.u)

FMax(a, b) == IF FLess(a, b) THEN b ELSE a

\* p / 100.0 * a, for a whole percentage p
FPct(p, a) ==
    LET whole == p * (a.c \div 100)
        hundredths == p * (a.c % 100)
    IN  Norm(whole + (hundredths \div 100),
             (hundredths % 100) * (UnitsPerCent \div 100) + ((p * a.u) \div 100))

\* round(x, 2): the nearest whole cent, as a number of cents
Round2(a) ==
    IF a.u * 2 < UnitsPerCent THEN a.c
    ELSE IF a.u * 2 > UnitsPerCent THEN a.c + 1
    ELSE IF a.c % 2 = 0 THEN a.c ELSE a.c + 1

\* x or 0.0, for an Optional[float]
OrZero(x) == IF x = None THEN 0 ELSE x[1]

(***************************************************************************)
(* src/services/budget_pdf.py                                              *)
(***************************************************************************)
\* Text is a sequence of characters.  A printable ASCII character is written as
\* itself (the grave accent excepted), any other character by the name of its
\* code point.
Ascii ==
    <<" ", "!", "\"", "#", "$", "%", "&", "'", "(", ")", "*", "+", ",", "-", ".", "/",
      "0", "1", "2", "3", "4", "5", "6", "7", "8", "9", ":", ";", "<", "=", ">", "?",
      "@", "A", "B", "C", "D", "E", "F", "G", "H", "I", "J", "K", "L", "M", "N", "O",
      "P", "Q", "R", "S", "T", "U", "V", "W", "X", "Y", "Z", "[", "\\", "]", "^", "_",
      "U+0060", "a", "b", "c", "d", "e", "f", "g", "h", "i", "j", "k", "l", "m", "n", "o",
      "p", "q", "r", "s", "t", "u", "v", "w", "x", "y", "z", "{", "|", "}", "~">>

\* ord(ch): the code point of a character
ord(ch) ==
    IF \E i \in 1..Len(Ascii) : Ascii[i] = ch
    THEN 31 + (CHOOSE i \in 1..Len(Ascii) : Ascii[i] = ch)
    ELSE CASE ch = "U+000A" -> 10
           [] ch = "U+000D" -> 13
           [] ch = "U+0085" -> 133
           [] ch = "U+00E9" -> 233
           [] ch = "U+00FF" -> 255
           [] ch = "U+0100" -> 256
           [] ch = "U+2028" -> 8232
           [] ch = "U+20AC" -> 8364

\* Below, CHOOSE r \in {e(v) : v \in {x}} : TRUE is e(x) with the value of x bound
\* to v, as Python binds the value of an expression to a name: x is evaluated
\* once however often e uses it.

\* whether str.encode("latin-1") can encode the character
Latin1(ch) == ord(ch) < 256

\* _safe_text without the replacement: the text is handed on as it came
_safe_text_unchecked(text) == text

\* _safe_text: None gives "", a character latin-1 cannot encode gives "?"
_safe_text(text) ==
    IF text = None THEN <<>>
    ELSE CHOOSE r \in {[i \in 1..Len(t) |-> IF Latin1(t[i]) THEN t[i] ELSE "?"] :
                           t \in {text}} : TRUE

\* s[:n]
Take(s, n) == SubSeq(s, 1, IF Len(s) < n THEN Len(s) ELSE n)

\* the line boundaries of str.splitlines that a text of the model can hold
LineBreaks == {"U+000A", "U+000D", "U+0085", "U+2028"}

\* str.splitlines(): cur is the line being read, i the position in s
RECURSIVE SplitFrom(_, _, _)
SplitFrom(s, i, cur) ==
    IF i > Len(s) THEN (IF cur = <<>> THEN <<>> ELSE <<cur>>)
    ELSE IF s[i] \in LineBreaks
         THEN <<cur>> \o SplitFrom(s,
                             IF s[i] = "U+000D" /\ i < Len(s) /\ s[i + 1] = "U+000A"
                             THEN i + 2 ELSE i + 1,
                             <<>>)
         ELSE SplitFrom(s, i + 1, Append(cur, s[i]))

splitlines(s) == SplitFrom(s, 1, <<>>)

DigitChars == <<"0", "1", "2", "3", "4", "5", "6", "7", "8", "9">>

DigitChar(d) == DigitChars[d + 1]

RECURSIVE DigitsOf(_)
DigitsOf(n) ==
    IF n < 10 THEN <<DigitChar(n)>>
    ELSE Append(DigitsOf(n \div 10), DigitChar(n % 10))

\* the "," option of the format mini-language: a comma before every group of
\* three digits, counted from the right
RECURSIVE GroupThousands(_)
GroupThousands(ds) ==
    IF Len(ds) <= 3 THEN ds
    ELSE GroupThousands(SubSeq(ds, 1, Len(ds) - 3))
             \o <<",">> \o SubSeq(ds, Len(ds) - 2, Len(ds))

\* f"{value:,.2f}"
FormatComma2f(value) ==
    CHOOSE r \in
        {(IF v.c < 0 THEN <<"-">> ELSE <<>>)
             \o GroupThousands(DigitsOf(v.mag \div 100))
             \o <<".">>
             \o <<DigitChar((v.mag % 100) \div 10), DigitChar(v.mag % 10)>> :
         v \in {[c |-> value.c,
                 mag |-> IF Round2(value) < 0 THEN -Round2(value) ELSE Round2(value)]}} :
        TRUE

\* str.replace(old, new) for one-character old and new
Replace(s, old, new) ==
    CHOOSE r \in {[i \in 1..Len(t) |-> IF t[i] = old THEN new ELSE t[i]] : t \in {s}} : TRUE

\* _format_currency with the separators replaced one after the other, without
\* the placeholder
_format_currency_swapped(value, currency) ==
    currency \o <<" ">>
        \o Replace(Replace(FormatComma2f(value), ",", "."), ".", ",")

_format_currency(value, currency) ==
    currency \o <<" ">>
        \o Replace(Replace(Replace(FormatComma2f(value), ",", "X"), ".", ","), "X", ".")

\* the loop of _calc_totals over items[i..]
RECURSIVE SumItems(_, _, _)
SumItems(items, i, subtotal) ==
    IF i > Len(items) THEN subtotal
    ELSE SumItems(items, i + 1,
                  FAdd(subtotal, FMulInt(items[i].quantity, FromCents(items[i].unit_price))))

\* _calc_totals with the tax taken on the subtotal, not on the amount after
\* discount
_calc_totals_tax_on_subtotal(items, discount_percent, tax_percent) ==
    LET subtotal == SumItems(items, 1, FZero)
        discount == FPct(OrZero(discount_percent), subtotal)
        total_after_discount == FMax(FSub(subtotal, discount), FZero)
        tax == FPct(OrZero(tax_percent), subtotal)
        grand_total == FAdd(total_after_discount, tax)
    IN  [subtotal |-> Round2(subtotal), discount |-> Round2(discount),
         tax |-> Round2(tax), total |-> Round2(grand_total)]

_calc_totals(items, discount_percent, tax_percent) ==
    LET subtotal == SumItems(items, 1, FZero)
        discount == FPct(OrZero(discount_percent), subtotal)
        total_after_discount == FMax(FSub(subtotal, discount), FZero)
        tax == FPct(OrZero(tax_percent), total_after_discount)
        grand_total == FAdd(total_after_discount, tax)
    IN  [subtotal |-> Round2(subtotal), discount |-> Round2(discount),
         tax |-> Round2(tax), total |-> Round2(grand_total)]

\* row_total(label, value, bold) of generate_budget_pdf: one line of the totals
\* block; percent is the rate the label shows, amount the value passed
row_total(label, percent, value, bold, currency) ==
    [label |-> label, percent |-> percent, amount |-> value, bold |-> bold,
     text |-> _safe_text(_format_currency(FromCents(value), currency))]

\* the item table of generate_budget_pdf
item_rows(items, currency) ==
    IF items = <<>>
    THEN <<[description |-> _safe_text(<<"N", "e", "n", "h", "u", "m", " ", "i", "t", "e",
                                         "m", " ", "i", "n", "f", "o", "r", "m", "a", "d",
                                         "o", ".">>),
            quantity |-> 0, unit |-> <<>>, line_total |-> <<>>]>>
    ELSE [i \in 1..Len(items) |->
             [description |-> _safe_text(Take(items[i].description, 120)),
              quantity |-> items[i].quantity,
              unit |-> _safe_text(
                  _format_currency(FromCents(items[i].unit_price), currency)),
              line_total |-> _safe_text(_format_currency(
                  FMulInt(items[i].quantity, FromCents(items[i].unit_price)), currency))]]

\* x or default, for an Optional[str]
OrText(x, default) == IF x = <<>> THEN default ELSE x

\* the texts generate_budget_pdf hands to pdf.cell and pdf.multi_cell that hold
\* a string of the payload, in the order of the calls
cells(doc) ==
    doc.company \o doc.client
        \o [i \in 1..Len(doc.item_rows) |-> doc.item_rows[i].description]
        \o [i \in 1..Len(doc.item_rows) |-> doc.item_rows[i].unit]
        \o [i \in 1..Len(doc.item_rows) |-> doc.item_rows[i].line_total]
        \o [i \in 1..Len(doc.totals_rows) |-> doc.totals_rows[i].text]
        \o doc.notes

\* pdf.output(dest="S").encode("latin-1") raises when a text of the document
\* holds a character latin-1 cannot encode
output_raises(doc) ==
    \E texts \in {cells(doc)} :
        \E i \in 1..Len(texts) : \E j \in 1..Len(texts[i]) : ~Latin1(texts[i][j])

\* lines 38-46 and 50-122 of generate_budget_pdf: what is rendered for the
\* payload, given the totals; now is datetime.now() as formatted into the header
document(p, now, totals) ==
    LET company_name ==
            OrText(p.company_name,
                   <<"M", "i", "n", "h", "a", " ", "E", "m", "p", "r", "e", "s", "a">>)
        company_email == OrText(p.company_email, <<>>)
        client_name == OrText(p.client_name, <<>>)
        client_email == OrText(p.client_email, <<>>)
        currency == OrText(p.currency, <<"R", "$">>)
        discount_percent == OrZero(p.discount_percent)
        tax_percent == OrZero(p.tax_percent)
        notes == OrText(p.notes, <<>>)
        items == p.items
    IN  [generated_at |-> now,
         company |->
             <<_safe_text(company_name)>>
             \o (IF company_email # <<>> THEN <<_safe_text(company_email)>> ELSE <<>>),
         client |->
             (IF client_name # <<>> THEN <<_safe_text(client_name)>> ELSE <<>>)
             \o (IF client_email # <<>> THEN <<_safe_text(client_email)>> ELSE <<>>),
         items |-> items,
         totals |-> totals,
         item_rows |-> item_rows(items, currency),
         totals_rows |->
             <<row_total("Subtotal:", 0, totals.subtotal, FALSE, currency)>>
             \o (IF discount_percent # 0
                 THEN <<row_total("Desconto", discount_percent, -totals.discount,
                                  FALSE, currency)>>
                 ELSE <<>>)
             \o (IF tax_percent # 0
                 THEN <<row_total("Impostos", tax_percent, totals.tax, FALSE, currency)>>
                 ELSE <<>>)
             \o <<row_total("Total:", 0, totals.total, TRUE, currency)>>,
         notes |-> IF notes # <<>> THEN Take(splitlines(_safe_text(notes)), 12)
                   ELSE <<>>]

\* line 125 of generate_budget_pdf: the document, and whether producing its
\* bytes raises
output(p, now, totals) ==
    CHOOSE r \in {[raised |-> output_raises(doc), doc |-> doc] :
                     doc \in {document(p, now, totals)}} : TRUE

generate_budget_pdf(p, now) ==
    CHOOSE r \in {output(p, now, totals) :
                     totals \in {_calc_totals(p.items, <<OrZero(p.discount_percent)>>,
                                              <<OrZero(p.tax_percent)>>)}} : TRUE

(***************************************************************************)
(* src/models/budget.py                                                    *)
(***************************************************************************)
\* BudgetItem: description min_length=1, quantity ge=1, unit_price ge=0
BudgetItem(it) ==
    /\ Len(it.description) >= 1
    /\ it.quantity >= 1
    /\ it.unit_price >= 0

\* BudgetRequest: items is a list of BudgetItem; the optional rates carry no
\* constraint
BudgetRequest(p) == \A i \in 1..Len(p.items) : BudgetItem(p.items[i])

(***************************************************************************)
(* src/app.py: the image helpers.                                          *)
(*                                                                         *)
(* An image object is [w, h, mode, transparency, orientation, data,        *)
(* state].  Image.open is lazy: it reads the header (size, mode, info)     *)
(* and raises when the bytes are not an image; the pixel data is decoded   *)
(* by the first operation that needs it (load, copy, transpose, save).     *)
(* data says what decoding the pixels does: "ok", "truncated" (every load  *)
(* raises) or "broken" (the decoder reports an error on the first load     *)
(* and the object then keeps the partly decoded pixels).                   *)
(***************************************************************************)
\* max_bytes one byte lower, which is the limit of a check written >=
max_bytes_exclusive == 4500000 - 1

max_bytes == 4500000

allowed_content_types == {"image/jpeg", "image/png", "image/webp"}

\* Image.load on an image object: whether it raises, and the object after it
load(im) ==
    IF im.state # "lazy" THEN [raised |-> FALSE, im |-> im]
    ELSE IF im.data = "ok" THEN [raised |-> FALSE, im |-> [im EXCEPT !.state = "loaded"]]
    ELSE IF im.data = "truncated" THEN [raised |-> TRUE, im |-> im]
    ELSE [raised |-> TRUE, im |-> [im EXCEPT !.state = "partial"]]

\* _read_image_and_exif: the EXIF tags (an empty map when exifread raises)
\* and Image.open, which raises when the header is not an image's
_read_image_and_exif(file) ==
    [raised |-> ~file.header_ok,
     exif_data |-> IF file.exif_ok /\ file.orientation # 0
                   THEN {<<"Image Orientation", file.orientation>>}
                   ELSE {},
     img |-> [w |-> file.w, h |-> file.h, mode |-> file.mode,
              transparency |-> file.transparency,
              orientation |-> file.orientation, data |-> file.data,
              orient_ok |-> file.orient_ok, state |-> "lazy"]]

\* ImageOps.exif_transpose: decodes the pixels, reads the orientation tag and
\* returns the transposed image without the tag, or a copy
exif_transpose(im) ==
    LET l == load(im)
    IN  IF l.raised \/ ~im.orient_ok THEN [raised |-> TRUE, im |-> l.im]
        ELSE IF im.orientation \in 5..8
        THEN [raised |-> FALSE,
              im |-> [l.im EXCEPT !.w = im.h, !.h = im.w, !.orientation = 0]]
        ELSE [raised |-> FALSE, im |-> [l.im EXCEPT !.orientation = 0]]

\* _apply_exif_orientation without its try/except
_apply_exif_orientation_raising(im) == exif_transpose(im)

\* _apply_exif_orientation: the transposed image, or img itself when
\* exif_transpose raises
_apply_exif_orientation(im) ==
    LET t == exif_transpose(im)
    IN  [raised |-> FALSE, im |-> t.im]

Abs(x) == IF x < 0 THEN -x ELSE x

Max(a, b) == IF a > b THEN a ELSE b

\* a resize of the longest side to max_side, whatever the original's size
thumbnail_upscaling(w, h, max_side) ==
    IF w >= h
    THEN <<max_side, Max((max_side * h) \div w, 1)>>
    ELSE <<Max((max_side * w) \div h, 1), max_side>>

\* Image.thumbnail((max_side, max_side)): the size it resizes to
thumbnail(w, h, max_side) ==
    LET x == max_side
        y == max_side
    IN  IF x >= w /\ y >= h THEN <<w, h>>
        ELSE IF x * h >= w * y
        THEN \* x / y >= aspect: x = round_aspect(y * aspect)
             LET lo == (y * w) \div h
                 hi == IF (y * w) % h = 0 THEN lo ELSE lo + 1
                 \* key(n) = abs(aspect - n / y)
                 pick == IF Abs(w * y - lo * h) <= Abs(w * y - hi * h) THEN lo ELSE hi
             IN  <<Max(pick, 1), y>>
        ELSE \* y = round_aspect(x / aspect)
             LET lo == (x * h) \div w
                 hi == IF (x * h) % w = 0 THEN lo ELSE lo + 1
                 \* key(n) = 0 if n == 0 else abs(aspect - x / n)
                 pick == IF lo = 0 THEN lo
                         ELSE IF Abs(w * lo - x * h) * hi <= Abs(w * hi - x * h) * lo
                         THEN lo ELSE hi
             IN  <<x, Max(pick, 1)>>

\* _fit_contain: a copy of img (which decodes the pixels) resized to fit
_fit_contain(im, max_side) ==
    LET l == load(im)
        size == thumbnail(im.w, im.h, max_side)
    IN  [raised |-> l.raised, src |-> l.im,
         im |-> [l.im EXCEPT !.w = size[1], !.h = size[2]]]

\* _choose_format_by_alpha choosing by alpha although WEBP is preferred
_choose_format_by_alpha_lossless(im, prefer_webp) ==
    LET has_alpha == im.mode \in {"RGBA", "LA"} \/ im.transparency
    IN  IF has_alpha THEN [fmt |-> "PNG", params |-> {}]
        ELSE [fmt |-> "WEBP", params |-> {<<"quality", 82>>, <<"method", 5>>}]

\* _choose_format_by_alpha: the format and the encoder parameters, a set of
\* <<name, value>> pairs
_choose_format_by_alpha(im, prefer_webp) ==
    LET has_alpha == im.mode \in {"RGBA", "LA"} \/ im.transparency
    IN  IF prefer_webp
        THEN [fmt |-> "WEBP", params |-> {<<"quality", 82>>, <<"method", 5>>}]
        ELSE IF has_alpha THEN [fmt |-> "PNG", params |-> {}]
        ELSE [fmt |-> "JPEG",
              params |-> {<<"quality", 85>>, <<"optimize", TRUE>>, <<"progressive", TRUE>>}]

\* str.upper and str.lower on a format name
upper(fmt) ==
    CASE fmt \in {"WEBP", "webp"} -> "WEBP"
      [] fmt \in {"PNG", "png"} -> "PNG"
      [] fmt \in {"JPEG", "jpeg"} -> "JPEG"

\* the format name used as it is, without .lower()
lower_identity(fmt) == fmt

lower(fmt) ==
    CASE fmt \in {"WEBP", "webp"} -> "webp"
      [] fmt \in {"PNG", "png"} -> "png"
      [] fmt \in {"JPEG", "jpeg"} -> "jpeg"

\* _save_image_to_bytes without the conversion before a JPEG is written
_save_image_to_bytes_unflattened(im, fmt, params) ==
    [format |-> fmt, params |-> params, w |-> im.w, h |-> im.h, mode |-> im.mode]

\* _save_image_to_bytes: the encoded image, described by what it decodes to
_save_image_to_bytes(im, fmt, params) ==
    LET out == IF upper(fmt) = "JPEG" /\ im.mode \in {"RGBA", "LA", "P"}
               THEN [im EXCEPT !.mode = "RGB"]
               ELSE im
    IN  [format |-> fmt, params |-> params, w |-> out.w, h |-> out.h, mode |-> out.mode]

\* results[name] = data on a dict, which keeps insertion order
DictSet(d, name, data) ==
    IF \E i \in 1..Len(d) : d[i].name = name
    THEN [i \in 1..Len(d) |-> IF d[i].name = name THEN [name |-> name, data |-> data]
                                                 ELSE d[i]]
    ELSE Append(d, [name |-> name, data |-> data])

(***************************************************************************)
(* The requests the model draws.                                           *)
(***************************************************************************)
ContentTypes == allowed_content_types \cup {"image/gif"}

Filenames == {None, <<"a", ".", "b", ".", "p", "n", "g">>}

BodySizes == {1000, max_bytes, max_bytes + 1}

Sides == {1, 256, 300, 1024, 2000}

Modes == {"RGB", "RGBA", "P"}

NoFile ==
    [header_ok |-> FALSE, data |-> "none", w |-> 0, h |-> 0, mode |-> "",
     transparency |-> FALSE, orientation |-> 0, exif_ok |-> FALSE, orient_ok |-> FALSE]

\* what the uploaded bytes hold: not an image at all, an image whose pixel
\* data is damaged, or an image; exif_ok and orient_ok say whether exifread
\* and exif_transpose cope with its metadata
Files ==
    {[NoFile EXCEPT !.data = "unidentified"]}
    \cup [header_ok : {TRUE}, data : {"truncated", "broken"}, w : {300}, h : {2000},
          mode : {"RGB"}, transparency : {FALSE}, orientation : {0, 6},
          exif_ok : BOOLEAN, orient_ok : BOOLEAN]
    \cup [header_ok : {TRUE}, data : {"ok"}, w : Sides, h : Sides,
          mode : Modes, transparency : BOOLEAN, orientation : {0, 6},
          exif_ok : BOOLEAN, orient_ok : BOOLEAN]

NoUpload == [content_type |-> "", filename |-> None, nbytes |-> 0, file |-> NoFile]

NoImg ==
    [w |-> 0, h |-> 0, mode |-> "", transparency |-> FALSE, orientation |-> 0,
     data |-> "none", orient_ok |-> FALSE, state |-> "none"]

Prices == {0, 5, 5000}

Currencies == {<<>>, <<"U", "S", "$">>}

Servico == <<"S", "e", "r", "v", "i", "c", "o">>

Items ==
    [description : {Servico}, quantity : 1..MaxQuantity, unit_price : Prices]
    \cup {[description |-> <<>>, quantity |-> 1, unit_price |-> 5000],
          [description |-> Servico, quantity |-> 0, unit_price |-> 5000],
          [description |-> Servico, quantity |-> 1, unit_price |-> -5000]}

RECURSIVE SeqsUpTo(_, _)
SeqsUpTo(S, n) ==
    IF n = 0 THEN {<<>>}
    ELSE LET shorter == SeqsUpTo(S, n - 1)
         IN  shorter \cup {Append(q, x) : q \in shorter, x \in S}

\* budgets that vary in their numbers and leave every optional text unset
Payloads ==
    [company_name : {None}, company_email : {None},
     client_name : {None}, client_email : {None}, notes : {None},
     currency : Currencies,
     discount_percent : {None, <<-10>>, <<0>>, <<10>>, <<150>>},
     tax_percent : {<<-200>>, <<0>>, <<5>>},
     items : SeqsUpTo(Items, MaxItems)]

\* texts with characters on both sides of the latin-1 boundary
Texts == {None, <<"J", "o", "s", "U+00E9">>, <<"U+00FF", "U+0100", "?", "U+20AC">>}

Notes ==
    {None,
     <<"a", "U+000D", "U+000A", "U+20AC", "U+000A", "U+000A", "b", "U+0085", "U+2028", "c">>}

\* budgets that vary in their texts, with one item
TextPayloads ==
    [company_name : Texts, company_email : Texts,
     client_name : Texts, client_email : Texts, notes : Notes,
     currency : {<<"R", "$">>, <<"U+20AC">>},
     discount_percent : {<<10>>},
     tax_percent : {<<0>>},
     items : {<<[description |-> d, quantity |-> 2, unit_price |-> 5000]>> :
                  d \in {Servico, <<"C", "a", "f", "U+00E9", " ", "U+0100">>}}]

NoPayload ==
    [company_name |-> None, company_email |-> None, client_name |-> None,
     client_email |-> None, notes |-> None,
     currency |-> <<>>, discount_percent |-> None, tax_percent |-> None, items |-> <<>>]

\* the values datetime.now() takes, as generate_budget_pdf formats them
Clock == {"04/11/2026 10:00", "04/11/2026 10:01"}

NoResp == [status |-> 0, media_type |-> "", filename |-> <<>>, entries |-> <<>>]

NoCall ==
    [fn |-> "", im |-> NoImg, prefer_webp |-> FALSE, fmt |-> "", value |-> FZero,
     currency |-> <<>>]

NoEncoded == [format |-> "", params |-> {}, w |-> 0, h |-> 0, mode |-> ""]

NoRet == [fmt |-> "", params |-> {}, text |-> <<>>, encoded |-> NoEncoded]

\* raise HTTPException(status_code=...), or an unhandled exception (500)
\* an HTTPException that carries the entries produced before the failure
HTTPErrorWithOutput(status) == [NoResp EXCEPT !.status = status, !.entries = results]

HTTPError(status) == [NoResp EXCEPT !.status = status]

\* a request that has not arrived
NoRequest ==
    [pc |-> "idle", upload |-> NoUpload, img |-> NoImg, exif_data |-> {},
     results |-> <<>>, dims |-> <<0, 0>>, payload |-> NoPayload, pdf |-> <<>>,
     trace |-> <<>>, resp |-> NoResp]

Init ==
    /\ pc = "idle"
    /\ upload = NoUpload
    /\ img = NoImg
    /\ exif_data = {}
    /\ results = <<>>
    /\ dims = <<0, 0>>
    /\ payload = NoPayload
    /\ pdf = <<>>
    /\ trace = <<>>
    /\ resp = NoResp
    /\ call = NoCall
    /\ ret = NoRet
    /\ parked = NoRequest

(***************************************************************************)
(* POST /api/image/process: process_image, one action per step.            *)
(***************************************************************************)
ImageLocals == <<img, exif_data, results, dims>>
BudgetVars == <<payload, pdf>>
UnitVars == <<call, ret>>
OtherRequest == <<parked>>

ReceiveImageFrom(types, names) ==
    /\ pc = "idle"
    /\ \E ct \in types, fn \in names :
           upload' = [NoUpload EXCEPT !.content_type = ct, !.filename = fn]
    /\ pc' = "image_content_type"
    /\ UNCHANGED <<ImageLocals, BudgetVars, UnitVars, OtherRequest, trace, resp>>

ReceiveImage == ReceiveImageFrom(ContentTypes, Filenames)

\* lines 121-123
CheckContentType ==
    /\ pc = "image_content_type"
    /\ trace' = Append(trace, "content_type")
    /\ IF upload.content_type \notin allowed_content_types
       THEN /\ resp' = HTTPError(400)
            /\ pc' = "done"
       ELSE /\ resp' = resp
            /\ pc' = "image_read"
    /\ UNCHANGED <<upload, ImageLocals, BudgetVars, UnitVars, OtherRequest>>

\* lines 125-128
ReadBodyFrom(sizes) ==
    /\ pc = "image_read"
    /\ \E n \in sizes :
           /\ upload' = [upload EXCEPT !.nbytes = n]
           /\ IF n > max_bytes
              THEN /\ resp' = HTTPError(413)
                   /\ pc' = "done"
              ELSE /\ resp' = resp
                   /\ pc' = "image_decode"
    /\ trace' = Append(trace, "read")
    /\ UNCHANGED <<ImageLocals, BudgetVars, UnitVars, OtherRequest>>

ReadBody == ReadBodyFrom(BodySizes)

\* lines 130-135
DecodeFrom(files) ==
    /\ pc = "image_decode"
    /\ \E file \in files :
           LET r == _read_image_and_exif(file)
               o == _apply_exif_orientation(r.img)
           IN  /\ upload' = [upload EXCEPT !.file = file]
               /\ IF r.raised \/ o.raised
                  THEN /\ resp' = HTTPError(400)
                       /\ pc' = "done"
                       /\ trace' = Append(trace, "exif")
                       /\ UNCHANGED ImageLocals
                  ELSE /\ img' = o.im
                       /\ exif_data' = r.exif_data
                       /\ dims' = <<o.im.w, o.im.h>>
                       /\ trace' = trace \o <<"exif", "open", "orientation">>
                       /\ resp' = resp
                       /\ pc' = "image_thumb"
                       /\ UNCHANGED results
    /\ UNCHANGED <<BudgetVars, UnitVars, OtherRequest>>

Decode == DecodeFrom(Files)

\* one variant: _fit_contain, _choose_format_by_alpha, _save_image_to_bytes and
\* the store into results; fault says whether the codec raises on the way
Variant(stem, max_side, step, next) ==
    /\ pc = step
    /\ \E fault \in BOOLEAN :
           LET t == _fit_contain(img, max_side)
               f == _choose_format_by_alpha(t.im, TRUE)
               name == stem \o "." \o lower(f.fmt)
           IN  /\ img' = t.src
               /\ trace' = IF fault THEN trace \o <<step, "fault">> ELSE Append(trace, step)
               /\ IF t.raised \/ fault
                  THEN /\ resp' = HTTPError(500)
                       /\ pc' = "done"
                       /\ UNCHANGED results
                  ELSE /\ results' = DictSet(results, name,
                                             _save_image_to_bytes(t.im, f.fmt, f.params))
                       /\ resp' = resp
                       /\ pc' = next
    /\ UNCHANGED <<upload, exif_data, dims, BudgetVars, UnitVars, OtherRequest>>

\* lines 140-143
Thumb == Variant("thumb_256", 256, "image_thumb", "image_medium")

\* lines 145-148
Medium == Variant("medium_1024", 1024, "image_medium", "image_optimized")

\* lines 150-152
Optimized ==
    /\ pc = "image_optimized"
    /\ \E fault \in BOOLEAN :
           LET l == load(img)
               f == _choose_format_by_alpha(img, TRUE)
               name == "optimized." \o lower(f.fmt)
           IN  /\ img' = l.im
               /\ trace' = IF fault THEN trace \o <<"image_optimized", "fault">>
                                     ELSE Append(trace, "image_optimized")
               /\ IF l.raised \/ fault
                  THEN /\ resp' = HTTPError(500)
                       /\ pc' = "done"
                       /\ UNCHANGED results
                  ELSE /\ results' = DictSet(results, name,
                                             _save_image_to_bytes(l.im, f.fmt, f.params))
                       /\ resp' = resp
                       /\ pc' = "image_package"
    /\ UNCHANGED <<upload, exif_data, dims, BudgetVars, UnitVars, OtherRequest>>

\* (file.filename or "image").rsplit(".", 1)[0]
filename_base(filename) ==
    LET name == IF filename = None THEN <<"i", "m", "a", "g", "e">> ELSE filename
        dots == {i \in 1..Len(name) : name[i] = "."}
    IN  IF dots = {} THEN name
        ELSE SubSeq(name, 1, (CHOOSE i \in dots : \A j \in dots : j <= i) - 1)

\* lines 154-173: metadata.json, the ZIP and the response
Package ==
    /\ pc = "image_package"
    /\ \E fault \in BOOLEAN :
           LET meta == [original |-> [width |-> dims[1], height |-> dims[2],
                                      content_type |-> upload.content_type,
                                      filename |-> upload.filename],
                        exif |-> exif_data]
               all == DictSet(results, "metadata.json", meta)
           IN  /\ trace' = IF fault THEN trace \o <<"image_package", "fault">>
                                     ELSE Append(trace, "image_package")
               /\ pc' = "done"
               /\ IF fault
                  THEN /\ resp' = HTTPError(500)
                       /\ UNCHANGED results
                  ELSE /\ results' = all
                       /\ resp' = [status |-> 200, media_type |-> "application/zip",
                                   filename |-> filename_base(upload.filename)
                                                \o <<"_processed.zip">>,
                                   entries |-> all]
    /\ UNCHANGED <<upload, img, exif_data, dims, BudgetVars, UnitVars, OtherRequest>>

(***************************************************************************)
(* POST /api/budget/pdf                                                    *)
(***************************************************************************)
ReceiveBudgetFrom(bodies) ==
    /\ pc = "idle"
    /\ payload' \in bodies
    /\ pc' = "budget_validate"
    /\ UNCHANGED <<upload, ImageLocals, pdf, UnitVars, OtherRequest, trace, resp>>

ReceiveBudget == ReceiveBudgetFrom(Payloads)

\* the framework parses the body as a BudgetRequest before the handler runs
ValidateBudget ==
    /\ pc = "budget_validate"
    /\ trace' = Append(trace, "BudgetRequest")
    /\ IF BudgetRequest(payload)
       THEN /\ resp' = resp
            /\ pc' = "budget_pdf"
       ELSE /\ resp' = HTTPError(422)
            /\ pc' = "done"
    /\ UNCHANGED <<upload, ImageLocals, BudgetVars, UnitVars, OtherRequest>>

\* what budget_pdf does with generate_budget_pdf: a StreamingResponse of the
\* bytes, or the 500 of an exception no handler catches
pdf_response(g) ==
    CHOOSE r \in
        {IF out.raised
         THEN [called |-> TRUE, pdf |-> <<>>, resp |-> HTTPError(500)]
         ELSE [called |-> TRUE, pdf |-> <<out.doc>>,
               resp |-> [status |-> 200, media_type |-> "application/pdf",
                         filename |-> <<"orcamento.pdf">>, entries |-> <<>>]] :
         out \in {g}} : TRUE

\* budget_pdf without the check of payload.items
budget_pdf_unguarded(p, now) == pdf_response(generate_budget_pdf(p, now))

\* budget_pdf: the handler
budget_pdf(p, now) ==
    IF p.items = <<>>
    THEN [called |-> FALSE, pdf |-> <<>>, resp |-> HTTPError(400)]
    ELSE pdf_response(generate_budget_pdf(p, now))

BudgetPdf ==
    /\ pc = "budget_pdf"
    /\ \E now \in Clock :
           \E r \in {budget_pdf(payload, now)} :
               /\ pdf' = r.pdf
               /\ resp' = r.resp
               /\ trace' = IF r.called
                           THEN trace \o <<"budget_pdf", "generate_budget_pdf">>
                           ELSE Append(trace, "budget_pdf")
    /\ pc' = "done"
    /\ UNCHANGED <<upload, ImageLocals, payload, UnitVars, OtherRequest>>

Next ==
    \/ ReceiveImage
    \/ CheckContentType
    \/ ReadBody
    \/ Decode
    \/ Thumb
    \/ Medium
    \/ Optimized
    \/ Package
    \/ ReceiveBudget
    \/ ValidateBudget
    \/ BudgetPdf

Spec == Init /\ [][Next]_vars

(***************************************************************************)
(* Unit calls of the pure helpers, on arguments drawn by the initial       *)
(* state.                                                                  *)
(***************************************************************************)
OpenModes == {"1", "L", "LA", "I;16", "P", "RGB", "RGBA", "CMYK"}

CentValues == {-123450, -1, 0, 5, 99, 100, 99999, 100000, 123450, 123456789}

Calls ==
    [fn : {"_choose_format_by_alpha"},
     im : [w : {300}, h : {2000}, mode : OpenModes, transparency : BOOLEAN,
           orientation : {0}, data : {"ok"}, orient_ok : {TRUE}, state : {"loaded"}],
     prefer_webp : BOOLEAN, fmt : {""}, value : {FZero}, currency : {<<>>}]
    \cup
    [fn : {"_save_image_to_bytes"},
     im : [w : {300}, h : {2000}, mode : OpenModes, transparency : BOOLEAN,
           orientation : {0}, data : {"ok"}, orient_ok : {TRUE}, state : {"loaded"}],
     prefer_webp : {FALSE}, fmt : {"JPEG", "jpeg", "PNG", "WEBP"}, value : {FZero},
     currency : {<<>>}]
    \cup
    [fn : {"_format_currency"}, im : {NoImg}, prefer_webp : {FALSE}, fmt : {""},
     value : [c : CentValues, u : {0, 2500, 5000}],
     currency : {<<>>, <<"R", "$">>, <<"U", "S", "$">>}]

InitUnit ==
    /\ pc = "call"
    /\ call \in Calls
    /\ ret = NoRet
    /\ upload = NoUpload
    /\ img = NoImg
    /\ exif_data = {}
    /\ results = <<>>
    /\ dims = <<0, 0>>
    /\ payload = NoPayload
    /\ pdf = <<>>
    /\ trace = <<>>
    /\ resp = NoResp
    /\ parked = NoRequest

CallChooseFormat ==
    /\ pc = "call"
    /\ call.fn = "_choose_format_by_alpha"
    /\ LET f == _choose_format_by_alpha(call.im, call.prefer_webp)
       IN  ret' = [NoRet EXCEPT !.fmt = f.fmt, !.params = f.params]
    /\ pc' = "returned"
    /\ UNCHANGED <<upload, ImageLocals, BudgetVars, call, trace, resp, OtherRequest>>

CallFormatCurrency ==
    /\ pc = "call"
    /\ call.fn = "_format_currency"
    /\ ret' = [NoRet EXCEPT !.text = _format_currency(call.value, call.currency)]
    /\ pc' = "returned"
    /\ UNCHANGED <<upload, ImageLocals, BudgetVars, call, trace, resp, OtherRequest>>

\* _save_image_to_bytes called with a format of the caller's choice
CallSaveImage ==
    /\ pc = "call"
    /\ call.fn = "_save_image_to_bytes"
    /\ ret' = [NoRet EXCEPT !.encoded = _save_image_to_bytes(call.im, call.fmt, {})]
    /\ pc' = "saved"
    /\ UNCHANGED <<upload, ImageLocals, BudgetVars, call, trace, resp, OtherRequest>>

\* _save_image_to_bytes called with what _choose_format_by_alpha returned for
\* the image, as process_image calls it
CallSaveChosen ==
    /\ pc = "returned"
    /\ call.fn = "_choose_format_by_alpha"
    /\ ret' = [ret EXCEPT !.encoded = _save_image_to_bytes(call.im, ret.fmt, ret.params)]
    /\ pc' = "saved"
    /\ UNCHANGED <<upload, ImageLocals, BudgetVars, call, trace, resp, OtherRequest>>

\* a budget request whose body varies in its texts
ReceiveBudgetText == ReceiveBudgetFrom(TextPayloads)

NextUnit ==
    \/ Next
    \/ CallChooseFormat
    \/ CallFormatCurrency
    \/ CallSaveImage
    \/ CallSaveChosen
    \/ ReceiveBudgetText

SpecUnit == (Init \/ InitUnit) /\ [][NextUnit]_vars

(***************************************************************************)
(* Two requests in flight.  The variables pc .. resp are the parameters,   *)
(* locals and response of the request the server is running, parked holds  *)
(* those of the other request, and the server may turn from one to the     *)
(* other between any two steps.                                            *)
(***************************************************************************)
\* the names process_image and budget_pdf bind at module level: results
SharedResults == {"results"}

\* the names process_image, budget_pdf and generate_budget_pdf bind at module
\* level rather than in the call: none, each is a parameter or a local
Shared == {}

\* the request being run, as parked holds it
Running ==
    [pc |-> pc, upload |-> upload, img |-> img, exif_data |-> exif_data,
     results |-> results, dims |-> dims, payload |-> payload, pdf |-> pdf,
     trace |-> trace, resp |-> resp]

\* the value a name has after the server turned to the other request
Bound(name, mine, other) == IF name \in Shared THEN mine ELSE other

Switch ==
    /\ parked' = Running
    /\ pc' = parked.pc
    /\ upload' = parked.upload
    /\ payload' = parked.payload
    /\ trace' = parked.trace
    /\ resp' = parked.resp
    /\ img' = Bound("img", img, parked.img)
    /\ exif_data' = Bound("exif_data", exif_data, parked.exif_data)
    /\ results' = Bound("results", results, parked.results)
    /\ dims' = Bound("dims", dims, parked.dims)
    /\ pdf' = Bound("pdf", pdf, parked.pdf)
    /\ UNCHANGED UnitVars

TwoTypes == {"image/png", "image/gif"}

TwoSizes == {1000, max_bytes + 1}

TwoFiles ==
    {[NoFile EXCEPT !.data = "unidentified"],
     [header_ok |-> TRUE, data |-> "truncated", w |-> 300, h |-> 2000, mode |-> "RGB",
      transparency |-> FALSE, orientation |-> 0, exif_ok |-> TRUE, orient_ok |-> TRUE],
     [header_ok |-> TRUE, data |-> "ok", w |-> 300, h |-> 2000, mode |-> "RGB",
      transparency |-> FALSE, orientation |-> 6, exif_ok |-> TRUE, orient_ok |-> TRUE],
     [header_ok |-> TRUE, data |-> "ok", w |-> 1, h |-> 1, mode |-> "RGBA",
      transparency |-> FALSE, orientation |-> 0, exif_ok |-> TRUE, orient_ok |-> TRUE]}

TwoPayloads ==
    {[NoPayload EXCEPT !.discount_percent = <<10>>, !.tax_percent = <<5>>, !.items = its] :
         its \in {<<>>,
                  <<[description |-> Servico, quantity |-> 1, unit_price |-> 5000]>>,
                  <<[description |-> Servico, quantity |-> 2, unit_price |-> 5000]>>,
                  <<[description |-> Servico, quantity |-> 0, unit_price |-> 5000]>>}}

ReceiveImageTwo == ReceiveImageFrom(TwoTypes, Filenames)
ReadBodyTwo == ReadBodyFrom(TwoSizes)
DecodeTwo == DecodeFrom(TwoFiles)
ReceiveBudgetTwo == ReceiveBudgetFrom(TwoPayloads)

NextTwo ==
    \/ Switch
    \/ ReceiveImageTwo
    \/ CheckContentType
    \/ ReadBodyTwo
    \/ DecodeTwo
    \/ Thumb
    \/ Medium
    \/ Optimized
    \/ Package
    \/ ReceiveBudgetTwo
    \/ ValidateBudget
    \/ BudgetPdf

SpecTwo == Init /\ [][NextTwo]_vars

(***************************************************************************)
(* One request under fairness.  Every step of a handler is straight-line   *)
(* code or a loop over a finite list, and the server runs a handler it has *)
(* called until it returns or raises: a step that is enabled is eventually *)
(* taken.                                                                  *)
(***************************************************************************)
\* the files that are not an image, those whose pixel data is damaged, and the
\* sound RGB files of one size
LiveFiles == {f \in Files : f.data # "ok" \/ (f.w = 300 /\ f.h = 2000 /\ f.mode = "RGB")}

DecodeLive == DecodeFrom(LiveFiles)

NextLive ==
    \/ ReceiveImageTwo
    \/ CheckContentType
    \/ ReadBody
    \/ DecodeLive
    \/ Thumb
    \/ Medium
    \/ Optimized
    \/ Package
    \/ ReceiveBudgetTwo
    \/ ValidateBudget
    \/ BudgetPdf

SpecLive == Init /\ [][NextLive]_vars /\ WF_vars(NextLive)

(***************************************************************************)
(* Properties.                                                             *)
(***************************************************************************)
BudgetRendered == pc = "done" /\ pdf # <<>>

ArchiveReturned == pc = "done" /\ resp.status = 200 /\ resp.media_type = "application/zip"

\* the sum over the items of quantity x unit_price, in cents
RECURSIVE CentsOf(_)
CentsOf(items) ==
    IF items = <<>> THEN 0
    ELSE Head(items).quantity * Head(items).unit_price + CentsOf(Tail(items))

\* r cents is a multiple of one cent nearest to num / den cents
NearestCent(r, num, den) == 2 * Abs(r * den - num) <= den

ExamplePayload ==
    /\ payload.items = <<[description |-> Servico, quantity |-> 2, unit_price |-> 5000]>>
    /\ payload.discount_percent = <<10>>
    /\ payload.tax_percent = <<5>>

\* C1: the totals of a rendered budget are subtotal = sum of quantity x
\* unit_price, discount = discount_percent/100 x subtotal, tax = tax_percent/100
\* x max(subtotal - discount, 0) and total = max(subtotal - discount, 0) + tax,
\* each the nearest cent of its unrounded value; 2 x 50.00 at 10% and 5% gives
\* 100.00, 10.00, 4.50 and 94.50.
C1_TotalsFormula ==
    BudgetRendered =>
        LET t == pdf[1].totals
            dp == OrZero(payload.discount_percent)
            tp == OrZero(payload.tax_percent)
            S == CentsOf(payload.items)
            \* max(subtotal - discount, 0) in hundredths of a cent
            after == Max(100 * S - dp * S, 0)
        IN  /\ t.subtotal = S
            /\ NearestCent(t.discount, dp * S, 100)
            /\ NearestCent(t.tax, tp * after, 10000)
            /\ NearestCent(t.total, (100 + tp) * after, 10000)
            /\ ExamplePayload =>
                   t = [subtotal |-> 10000, discount |-> 1000, tax |-> 450, total |-> 9450]

C1_Witness ==
    /\ BudgetRendered
    /\ ExamplePayload
    /\ pdf[1].totals = [subtotal |-> 10000, discount |-> 1000, tax |-> 450, total |-> 9450]

\* C2: the grand total of a budget request accepted by BudgetRequest and
\* budget_pdf is never negative.
C2_TotalNeverNegative == BudgetRendered => pdf[1].totals.total >= 0

\* the lowercase name of an output format
ExtensionOf(format) ==
    CASE format = "WEBP" -> "webp"
      [] format = "PNG" -> "png"
      [] format = "JPEG" -> "jpeg"

\* C3: a successful process_image returns an archive of exactly 4 entries,
\* thumb_256.<ext>, medium_1024.<ext>, optimized.<ext> and metadata.json in
\* this order, each <ext> the lowercase name of that variant's format.
C3_ArchiveEntries ==
    ArchiveReturned =>
        LET e == resp.entries
        IN  /\ Len(e) = 4
            /\ e[1].name = "thumb_256." \o ExtensionOf(e[1].data.format)
            /\ e[2].name = "medium_1024." \o ExtensionOf(e[2].data.format)
            /\ e[3].name = "optimized." \o ExtensionOf(e[3].data.format)
            /\ e[4].name = "metadata.json"

C3_Witness ==
    /\ ArchiveReturned
    /\ [i \in 1..Len(resp.entries) |-> resp.entries[i].name]
           = <<"thumb_256.webp", "medium_1024.webp", "optimized.webp", "metadata.json">>

\* the size of the image after orientation normalization: transposed when
\* the tag asks for a quarter turn and exif_transpose succeeds
NormalizedSize(file) ==
    IF file.data = "ok" /\ file.orient_ok /\ file.orientation \in 5..8
    THEN <<file.h, file.w>>
    ELSE <<file.w, file.h>>

\* a variant of size <<w, h>> fits target without growing past the original
Contained(v, original, target) ==
    /\ Max(v.w, v.h) <= target
    /\ v.w <= original[1]
    /\ v.h <= original[2]
    /\ Max(original[1], original[2]) <= target => <<v.w, v.h>> = original

\* C4: the 256 and 1024 variants have longest side <= the target, are never
\* larger than the original in either dimension and keep the original's size
\* when it already fits; the optimized variant keeps the size of the
\* orientation-normalized image.
C4_NoUpscaling ==
    ArchiveReturned =>
        LET e == resp.entries
            original == NormalizedSize(upload.file)
        IN  /\ dims = original
            /\ Contained(e[1].data, original, 256)
            /\ Contained(e[2].data, original, 1024)
            /\ <<e[3].data.w, e[3].data.h>> = original

C4_Witness ==
    /\ ArchiveReturned
    /\ upload.file.w = 300 /\ upload.file.h = 2000 /\ upload.file.orientation = 0
    /\ <<resp.entries[1].data.w, resp.entries[1].data.h>> = <<38, 256>>
    /\ <<resp.entries[2].data.w, resp.entries[2].data.h>> = <<154, 1024>>
    /\ <<resp.entries[3].data.w, resp.entries[3].data.h>> = <<300, 2000>>

\* C5: _choose_format_by_alpha returns WEBP for every image when prefer_webp
\* is set; otherwise PNG for an image with an alpha channel or palette
\* transparency and JPEG with quality=85, optimize, progressive for the rest;
\* the three variants of process_image are all WEBP.
C5_FormatSelection ==
    /\ (pc = "returned" /\ call.fn = "_choose_format_by_alpha") =>
           LET alpha == call.im.mode \in {"RGBA", "LA"} \/ call.im.transparency
           IN  /\ call.prefer_webp => ret.fmt = "WEBP"
               /\ (~call.prefer_webp /\ alpha) => ret.fmt = "PNG"
               /\ (~call.prefer_webp /\ ~alpha) =>
                      /\ ret.fmt = "JPEG"
                      /\ ret.params = {<<"quality", 85>>, <<"optimize", TRUE>>,
                                        <<"progressive", TRUE>>}
    /\ \A i \in 1..Len(results) :
           results[i].name # "metadata.json" => results[i].data.format = "WEBP"

C5_Witness ==
    /\ pc = "returned"
    /\ call.fn = "_choose_format_by_alpha"
    /\ ~call.prefer_webp
    /\ call.im.mode = "P" /\ call.im.transparency
    /\ ret.fmt = "PNG"

InTrace(step) == \E i \in 1..Len(trace) : trace[i] = step

\* the upload is an image whose pixels decode
Decodable == upload.file.header_ok /\ upload.file.data = "ok"

\* C6: for an upload that decodes, a failure of EXIF extraction or of
\* orientation normalization does not abort the request: the ExifMap is empty,
\* the image is left untransformed, and the archive has its 4 entries.
C6_MetadataFailuresAbsorbed ==
    (/\ pc = "done"
     /\ Decodable
     /\ ~upload.file.exif_ok \/ ~upload.file.orient_ok
     /\ ~InTrace("fault")) =>
        /\ ArchiveReturned
        /\ Len(resp.entries) = 4
        /\ ~upload.file.exif_ok =>
               /\ exif_data = {}
               /\ resp.entries[4].data.exif = {}
        /\ ~upload.file.orient_ok =>
               /\ dims = <<upload.file.w, upload.file.h>>
               /\ <<resp.entries[3].data.w, resp.entries[3].data.h>>
                      = <<upload.file.w, upload.file.h>>

C6_Witness ==
    /\ ArchiveReturned
    /\ Decodable
    /\ ~upload.file.exif_ok
    /\ ~upload.file.orient_ok
    /\ upload.file.orientation = 6
    /\ upload.file.w # upload.file.h
    /\ Len(resp.entries) = 4

\* C7: an upload that passes the content-type and size checks and whose
\* bytes do not decode as an image ends with 400 and no archive; a failure
\* during resize, encode or packaging ends with 500.
C7_DecodeFailureIs400 ==
    (pc = "done" /\ upload.file.data # "none") =>
        /\ ~Decodable => (resp.status = 400 /\ resp.entries = <<>>)
        /\ InTrace("fault") => resp.status = 500

\* BudgetItem's constraints
ValidItem(it) == it.description # <<>> /\ it.quantity >= 1 /\ it.unit_price >= 0

\* C8: budget_pdf answers an empty item list with 400 without calling
\* generate_budget_pdf; a non-empty list of valid items reaches
\* generate_budget_pdf and returns the PDF as orcamento.pdf.
C8_EmptyItemsRejected ==
    /\ InTrace("generate_budget_pdf") => payload.items # <<>>
    /\ (pc = "done" /\ InTrace("budget_pdf") /\ payload.items = <<>>) =>
           (resp.status = 400 /\ pdf = <<>>)
    /\ (/\ pc = "done"
        /\ payload.items # <<>>
        /\ \A i \in 1..Len(payload.items) : ValidItem(payload.items[i])) =>
           /\ InTrace("generate_budget_pdf")
           /\ pdf # <<>>
           /\ pdf[1].items = payload.items
           /\ resp.status = 200
           /\ resp.media_type = "application/pdf"
           /\ resp.filename = <<"orcamento.pdf">>

C8_Witness ==
    /\ pc = "done"
    /\ InTrace("budget_pdf")
    /\ payload.items = <<>>
    /\ resp.status = 400
    /\ pdf = <<>>

\* C9: the totals block lists the subtotal, the discount line only for a
\* nonzero discount_percent and as a negative amount, the tax line only for a
\* nonzero tax_percent, and the total; with both rates 0 both lines are
\* omitted and the total equals the subtotal.
C9_TotalsBlock ==
    BudgetRendered =>
        LET rows == pdf[1].totals_rows
            dp == OrZero(payload.discount_percent)
            tp == OrZero(payload.tax_percent)
        IN  /\ [i \in 1..Len(rows) |-> rows[i].label]
                   = <<"Subtotal:">>
                     \o (IF dp # 0 THEN <<"Desconto">> ELSE <<>>)
                     \o (IF tp # 0 THEN <<"Impostos">> ELSE <<>>)
                     \o <<"Total:">>
            /\ \A i \in 1..Len(rows) : rows[i].label = "Desconto" => rows[i].amount <= 0
            /\ (dp = 0 /\ tp = 0) => pdf[1].totals.total = pdf[1].totals.subtotal

IsDigit(ch) == \E d \in 1..Len(DigitChars) : DigitChars[d] = ch

RECURSIVE ParseDigits(_)
ParseDigits(ds) ==
    IF ds = <<>> THEN 0
    ELSE 10 * ParseDigits(SubSeq(ds, 1, Len(ds) - 1))
             + (CHOOSE d \in 0..9 : DigitChars[d + 1] = ds[Len(ds)])

\* C10: _format_currency returns "<currency> <value>", the value with exactly
\* 2 decimal places after a comma and a period between every group of three
\* integer digits; 1234.5 with "R$" gives "R$ 1.234,50".
C10_CurrencyFormat ==
    (pc = "returned" /\ call.fn = "_format_currency") =>
        LET k == Len(call.currency)
            t == ret.text
            body == SubSeq(t, k + 2, Len(t))
            neg == body[1] = "-"
            num == IF neg THEN Tail(body) ELSE body
            n == Len(num)
            int == SubSeq(num, 1, n - 3)
            cents == ParseDigits(SelectSeq(num, IsDigit))
            err == FSub(FromCents(IF neg THEN -cents ELSE cents), call.value)
        IN  /\ Len(t) >= k + 5
            /\ SubSeq(t, 1, k) = call.currency
            /\ t[k + 1] = " "
            /\ n >= 4
            /\ num[n - 2] = ","
            /\ IsDigit(num[n - 1]) /\ IsDigit(num[n])
            /\ Len(int) % 4 # 0
            /\ \A i \in 1..Len(int) :
                   IF (Len(int) - i + 1) % 4 = 0 THEN int[i] = "." ELSE IsDigit(int[i])
            /\ neg => call.value.c < 0
            /\ \/ err.c = 0 /\ err.u * 2 <= UnitsPerCent
               \/ err.c = -1 /\ err.u * 2 >= UnitsPerCent
            /\ (call.value = FromCents(123450) /\ call.currency = <<"R", "$">>) =>
                   t = <<"R", "$", " ", "1", ".", "2", "3", "4", ",", "5", "0">>

C10_Witness ==
    /\ pc = "returned"
    /\ call.fn = "_format_currency"
    /\ call.value = FromCents(123456789)
    /\ call.currency = <<"R", "$">>
    /\ ret.text = <<"R", "$", " ", "1", ".", "2", "3", "4", ".", "5", "6", "7", ",", "8", "9">>

\* the text with every character above code point 255 replaced by "?"
Substituted(text) == [i \in 1..Len(text) |-> IF ord(text[i]) > 255 THEN "?" ELSE text[i]]

\* the lines joined, without their line boundaries
RECURSIVE Joined(_)
Joined(lines) == IF lines = <<>> THEN <<>> ELSE Head(lines) \o Joined(Tail(lines))

IsPrefix(a, b) == Len(a) <= Len(b) /\ SubSeq(b, 1, Len(a)) = a

\* C11: for a request that reaches generate_budget_pdf, every text of the
\* payload is rendered with each character outside latin-1 replaced by "?" and
\* the others kept: company name and e-mail, client name and e-mail, item
\* descriptions, the currency symbol of every amount, and the notes; no
\* rendered text holds a character outside latin-1, and the request is answered
\* 200 with the document.
C11_TextsMadeSafe ==
    (pc = "done" /\ InTrace("generate_budget_pdf")) =>
        /\ resp.status = 200
        /\ pdf # <<>>
        /\ LET doc == pdf[1]
               currency == IF payload.currency = <<>> THEN <<"R", "$">> ELSE payload.currency
           IN  /\ \A i \in 1..Len(cells(doc)) :
                      \A j \in 1..Len(cells(doc)[i]) : ord(cells(doc)[i][j]) <= 255
               /\ payload.company_name # None =>
                      doc.company[1] = Substituted(payload.company_name)
               /\ payload.company_email # None =>
                      doc.company[2] = Substituted(payload.company_email)
               /\ doc.client =
                      (IF payload.client_name # None
                       THEN <<Substituted(payload.client_name)>> ELSE <<>>)
                      \o (IF payload.client_email # None
                          THEN <<Substituted(payload.client_email)>> ELSE <<>>)
               /\ Len(doc.item_rows) = Len(payload.items)
               /\ \A i \in 1..Len(payload.items) :
                      /\ doc.item_rows[i].description =
                             Substituted(payload.items[i].description)
                      /\ IsPrefix(Substituted(currency), doc.item_rows[i].unit)
                      /\ IsPrefix(Substituted(currency), doc.item_rows[i].line_total)
               /\ \A i \in 1..Len(doc.totals_rows) :
                      IsPrefix(Substituted(currency), doc.totals_rows[i].text)
               /\ Joined(doc.notes) =
                      SelectSeq(Substituted(payload.notes),
                                LAMBDA ch : ch \notin {"U+000A", "U+000D", "U+0085"})

C11_Witness ==
    /\ pc = "done"
    /\ resp.status = 200
    /\ payload.company_name = <<"U+00FF", "U+0100", "?", "U+20AC">>
    /\ payload.currency = <<"U+20AC">>
    /\ payload.notes # None
    /\ payload.items[1].description = <<"C", "a", "f", "U+00E9", " ", "U+0100">>
    /\ pdf # <<>>
    /\ pdf[1].company[1] = <<"U+00FF", "?", "?", "?">>
    /\ pdf[1].item_rows[1].description = <<"C", "a", "f", "U+00E9", " ", "?">>
    /\ pdf[1].item_rows[1].unit = <<"?", " ", "5", "0", ",", "0", "0">>
    /\ pdf[1].notes = <<<<"a">>, <<"?">>, <<>>, <<"b">>, <<"?", "c">>>>

\* the response process_image gives an upload when every codec call succeeds,
\* step after step with nothing else in flight
AloneImage(u) ==
    IF u.content_type \notin {"image/jpeg", "image/png", "image/webp"} THEN HTTPError(400)
    ELSE IF u.nbytes > 4500000 THEN HTTPError(413)
    ELSE LET r == _read_image_and_exif(u.file)
             o == _apply_exif_orientation(r.img)
             t1 == _fit_contain(o.im, 256)
             f1 == _choose_format_by_alpha(t1.im, TRUE)
             t2 == _fit_contain(t1.src, 1024)
             f2 == _choose_format_by_alpha(t2.im, TRUE)
             l == load(t2.src)
             f3 == _choose_format_by_alpha(l.im, TRUE)
             meta == [original |-> [width |-> o.im.w, height |-> o.im.h,
                                    content_type |-> u.content_type,
                                    filename |-> u.filename],
                      exif |-> r.exif_data]
         IN  IF r.raised \/ o.raised THEN HTTPError(400)
             ELSE IF t1.raised \/ t2.raised \/ l.raised THEN HTTPError(500)
             ELSE [status |-> 200, media_type |-> "application/zip",
                   filename |-> filename_base(u.filename) \o <<"_processed.zip">>,
                   entries |->
                       <<[name |-> "thumb_256." \o lower(f1.fmt),
                          data |-> _save_image_to_bytes(t1.im, f1.fmt, f1.params)],
                         [name |-> "medium_1024." \o lower(f2.fmt),
                          data |-> _save_image_to_bytes(t2.im, f2.fmt, f2.params)],
                         [name |-> "optimized." \o lower(f3.fmt),
                          data |-> _save_image_to_bytes(l.im, f3.fmt, f3.params)],
                         [name |-> "metadata.json", data |-> meta]>>]

\* the document with its generation timestamp blanked
Undated(doc) == [doc EXCEPT !.generated_at = ""]

\* the request r in flight got the response its own input determines
AnsweredFromOwnInput(r) ==
    r.pc = "done" =>
        /\ (r.trace[1] = "content_type" /\ \A i \in 1..Len(r.trace) : r.trace[i] # "fault")
               => r.resp = AloneImage(r.upload)
        /\ (r.trace[1] = "content_type" /\ \E i \in 1..Len(r.trace) : r.trace[i] = "fault")
               => r.resp = HTTPError(500)
        /\ r.trace[1] = "BudgetRequest" =>
               IF ~BudgetRequest(r.payload) THEN r.resp = HTTPError(422) /\ r.pdf = <<>>
               ELSE \E now \in Clock :
                        /\ r.resp = budget_pdf(r.payload, now).resp
                        /\ r.pdf = budget_pdf(r.payload, now).pdf

PipelineSteps ==
    {"exif", "open", "orientation", "image_thumb", "image_medium", "image_optimized",
     "image_package"}

TypeAllowed == upload.content_type \in {"image/jpeg", "image/png", "image/webp"}

\* C13: process_image checks the declared content type before it reads the
\* body and the size before any pipeline step.  A type other than image/jpeg,
\* image/png, image/webp is answered 400 with the body unread; a body of more
\* than 4,500,000 bytes is answered 413; a body of exactly 4,500,000 bytes
\* goes on to the pipeline; and no EXIF, decode, orientation, resize, encode
\* or packaging step runs for a request rejected by either check.
C13_ChecksBeforePipeline ==
    (trace # <<>> /\ trace[1] = "content_type") =>
        /\ \A i \in 1..Len(trace) : trace[i] = "content_type" => i = 1
        /\ \A i \in 1..Len(trace) : trace[i] = "read" => (i = 2 /\ TypeAllowed)
        /\ \A i \in 1..Len(trace) :
               trace[i] \in PipelineSteps =>
                   /\ i > 2
                   /\ trace[2] = "read"
                   /\ TypeAllowed
                   /\ upload.nbytes <= 4500000
        /\ ~TypeAllowed =>
               /\ pc = "done"
               /\ resp = HTTPError(400)
               /\ trace = <<"content_type">>
               /\ upload.nbytes = 0
               /\ img = NoImg /\ results = <<>>
        /\ (InTrace("read") /\ upload.nbytes > 4500000) =>
               /\ pc = "done"
               /\ resp = HTTPError(413)
               /\ trace = <<"content_type", "read">>
               /\ img = NoImg /\ results = <<>>
        /\ (InTrace("read") /\ upload.nbytes <= 4500000) =>
               /\ resp.status # 413
               /\ pc = "done" => InTrace("exif")

C13_Witness ==
    /\ pc = "done"
    /\ TypeAllowed
    /\ upload.nbytes = 4500001
    /\ resp.status = 413
    /\ trace = <<"content_type", "read">>

\* the complete archive: the three variants and metadata.json, every step run
CompleteArchive ==
    /\ resp.status = 200
    /\ resp.media_type = "application/zip"
    /\ Len(resp.entries) = 4
    /\ \E e1, e2, e3 \in {"webp", "png", "jpeg"} :
           [i \in 1..4 |-> resp.entries[i].name] =
               <<"thumb_256." \o e1, "medium_1024." \o e2, "optimized." \o e3,
                 "metadata.json">>
    /\ trace = <<"content_type", "read", "exif", "open", "orientation", "image_thumb",
                 "image_medium", "image_optimized", "image_package">>
    /\ pdf = <<>>

FinishedPdf ==
    /\ resp.status = 200
    /\ resp.media_type = "application/pdf"
    /\ resp.filename = <<"orcamento.pdf">>
    /\ resp.entries = <<>>
    /\ pdf # <<>>
    /\ Len(pdf[1].totals_rows) >= 2

ErrorResponse ==
    /\ resp.status \in {400, 413, 422, 500}
    /\ resp.media_type = ""
    /\ resp.filename = <<>>
    /\ resp.entries = <<>>
    /\ pdf = <<>>

\* C14: every request to process_image or budget_pdf eventually ends, and ends
\* in one outcome: the complete archive of four entries, the finished PDF, or
\* an error response that carries no entry and no document.  Nothing is
\* answered before the end, and nothing changes after it.
C14_OneTerminalOutcome ==
    /\ (pc # "idle") ~> (pc = "done")
    /\ [](pc = "done" => (CompleteArchive \/ FinishedPdf \/ ErrorResponse))
    /\ [](pc # "done" => resp = NoResp)
    /\ [][pc # "done"]_vars

\* a request that failed after two variants were encoded
C14_Witness ==
    /\ pc = "done"
    /\ resp = HTTPError(500)
    /\ Len(results) = 2
    /\ trace[Len(trace)] = "fault"

\* C15: whenever _save_image_to_bytes writes a JPEG, whatever the case of the
\* format name, the image written has no alpha channel and no palette: an
\* RGBA, LA or P image is written as RGB, any other mode as it is, in the same
\* size.  Every image that _choose_format_by_alpha routes to JPEG has no alpha
\* channel and no transparency entry, and of those the palette images are
\* written as RGB.
C15_JpegFlattened ==
    (pc = "saved" /\ ret.encoded.format \in {"JPEG", "jpeg"}) =>
        /\ ret.encoded.mode \notin {"RGBA", "LA", "P"}
        /\ call.im.mode \in {"RGBA", "LA", "P"} => ret.encoded.mode = "RGB"
        /\ call.im.mode \notin {"RGBA", "LA", "P"} => ret.encoded.mode = call.im.mode
        /\ ret.encoded.w = call.im.w /\ ret.encoded.h = call.im.h
        /\ call.fn = "_choose_format_by_alpha" =>
               /\ ~call.prefer_webp
               /\ call.im.mode \notin {"RGBA", "LA"}
               /\ ~call.im.transparency
               /\ ret.encoded.params = ret.params

\* a palette image that _choose_format_by_alpha routed to JPEG, written as RGB
C15_Witness ==
    /\ pc = "saved"
    /\ call.fn = "_choose_format_by_alpha"
    /\ call.im.mode = "P"
    /\ ret.fmt = "JPEG"
    /\ ret.encoded.format = "JPEG"
    /\ ret.encoded.mode = "RGB"

=============================================================================
